---- MODULE Spec2Model ----
(***************************************************************************)
(* Model of the network clients of javascript-opentimestamps:              *)
(*   RemoteCalendar.submit / RemoteCalendar.getTimestamp  (Calendar module)*)
(*   Esplora.blockhash / Esplora.block                    (Esplora module) *)
(*   UrlWhitelist.add / UrlWhitelist.contains             (Calendar module)*)
(* A call is a chain  fetch(...).then(h1).then(h2).catch(h3).  Promise     *)
(* reactions run as microtasks, so every settlement of an I/O promise      *)
(* (fetch, body read) runs the handlers that follow it in one atomic step; *)
(* timer callbacks are macrotasks and interleave only between such steps.  *)
(***************************************************************************)
EXTENDS Integers, Sequences, FiniteSets, TLC

(***************************************************************************)
(* Bounds of the model and constants of the program.                       *)
(***************************************************************************)
\* number of calls; Spec follows the first alone, ConcurrentSpec runs them all
NumCalls == 2
\* response bodies have lengths within MaxExcess bytes of the size limit
MaxExcess == 1
\* runs of whitespace around a text body are at most this long
MaxPad == 1
\* the whitelist model stops adding once it holds this many patterns
MaxPatterns == 5

\* body.length > 10000
SizeLimit == 10000
\* options.timeout ? options.timeout : 1000
DefaultEsploraTimeout == 1000

Calls == 1..NumCalls

VARIABLES
    calendarTimeout,  \* RemoteCalendar: this.timeout (never set by the constructor)
    esploraTimeout,   \* Esplora: this.timeout
    op,               \* op[c]: the operation call c runs
    pc,               \* pc[c]: "idle", "fetching", "reading", "done"
    timer,            \* timer[c]: the call's timeoutId
    aborted,          \* aborted[c]: controller.signal.aborted
    response,         \* response[c]: the response whose headers arrived
    thrown,           \* thrown[c]: the error the call's catch handler received
    outcome,          \* outcome[c]: how the promise returned to the caller settled
    decoded,          \* decoded[c]: Timestamp.deserialize was called on the body
    urls,             \* UrlWhitelist: this.urls
    lastAdd           \* the last UrlWhitelist.add: its argument, the set before, its result

callVars == <<op, pc, timer, aborted, response, thrown, outcome, decoded>>
clientVars == <<calendarTimeout, esploraTimeout>>
listVars == <<urls, lastAdd>>
vars == <<calendarTimeout, esploraTimeout, op, pc, timer, aborted, response,
          thrown, outcome, decoded, urls, lastAdd>>

(***************************************************************************)
(* JavaScript values and truthiness.                                       *)
(***************************************************************************)
JsUndefined == [type |-> "undefined"]
JsNull == [type |-> "null"]
JsNum(n) == [type |-> "number", num |-> n]
JsStr(s) == [type |-> "string", str |-> s]

\* ToBoolean: what `x ? a : b`, `!x` and `if (x)` test
Truthy(v) ==
    CASE v.type = "undefined" -> FALSE
      [] v.type = "null" -> FALSE
      [] v.type = "number" -> v.num # 0
      [] v.type = "string" -> v.str # ""
      [] OTHER -> TRUE

(***************************************************************************)
(* Errors: the class name and the message, which is all a caller can see.  *)
(***************************************************************************)
Err(name, message) == [name |-> name, message |-> message]

\* err.toString() of an Error: the name alone when the message is empty
ErrToString(err) ==
    IF err.message = "" THEN err.name ELSE err.name \o ": " \o err.message

\* err.message || err.toString()
MessageOrString(err) ==
    IF err.message # "" THEN err.message ELSE ErrToString(err)

\* what fetch rejects with once controller.abort() has run
AbortError == Err("AbortError", "This operation was aborted")
\* what fetch rejects with on a transport failure (DNS, reset, TLS)
FetchFailures == {Err("TypeError", "fetch failed")}
\* what reading the body rejects with when the connection breaks
BodyFailures == {Err("TypeError", "terminated")}

\* results of a handler: a returned value or a thrown error
Return(v) == [ok |-> TRUE, value |-> v]
Throw(e) == [ok |-> FALSE, err |-> e]

(***************************************************************************)
(* Timers: setTimeout / clearTimeout on the call's timeoutId.              *)
(***************************************************************************)
NoTimer == [state |-> "none", delay |-> 0]
SetTimeout(delay) == [state |-> "armed", delay |-> delay]

\* clearTimeout(timeoutId): cancels a pending timer, no effect on a fired one
ClearTimeout(timeoutId) ==
    IF timeoutId.state = "armed" THEN [timeoutId EXCEPT !.state = "cleared"]
    ELSE timeoutId

\* mutant: the catch handler leaves the timer as it finds it
ClearIfSet_Noop(timeoutId) == timeoutId

\* if (timeoutId) clearTimeout(timeoutId): timeoutId is null when no timer was set
ClearIfSet(timeoutId) ==
    IF timeoutId.state # "none" THEN ClearTimeout(timeoutId) ELSE timeoutId

\* the timer callback: () => controller.abort()
FireTimer(timeoutId) == [timeoutId EXCEPT !.state = "fired"]

(***************************************************************************)
(* Responses.  A response is its status line and the body the server       *)
(* sends after the headers.                                                *)
(***************************************************************************)
Statuses == {200, 404, 500}

StatusText(status) ==
    CASE status = 200 -> "OK"
      [] status = 404 -> "Not Found"
      [] status = 500 -> "Internal Server Error"

\* response.ok: the status is in the range 200-299
ResponseOk(resp) == resp.status >= 200 /\ resp.status <= 299

\* `HTTP ${response.status}: ${response.statusText}`
HttpMessage(resp) ==
    "HTTP " \o ToString(resp.status) \o ": " \o StatusText(resp.status)

BodyLens == {0} \cup ((SizeLimit - MaxExcess)..(SizeLimit + MaxExcess))

\* calendar bodies: a byte length, and what the proof decoder makes of the bytes
CalendarBodies ==
    {b \in [len : BodyLens, proof : {"valid", "truncated", "unreadable"}] :
        b.len = 0 => b.proof # "valid"}

\* explorer text bodies: `lead` blanks, `core` hash characters, `trail` blanks
TextBodies ==
    {t \in [type : {"string"}, lead : 0..MaxPad, core : {0, 64, SizeLimit + 1},
            trail : 0..MaxPad] : t.core = 0 => t.trail = 0}

TextLen(t) == t.lead + t.core + t.trail

\* explorer JSON bodies: the wire length and what JSON.parse makes of the text
MerkleRoots == {JsUndefined, JsNull, JsStr(""), JsStr("abc")}
Timestamps == {JsUndefined, JsNull, JsNum(0), JsNum(123)}
JsonValues ==
    {JsNull} \cup [type : {"object"}, merkle_root : MerkleRoots, timestamp : Timestamps]
JsonBodies ==
    {[len |-> 2, json |-> "invalid", parsed |-> JsNull]}
    \cup [len : {64, SizeLimit + 1}, json : {"valid"}, parsed : JsonValues]

Bodies(o) ==
    CASE o \in {"submit", "getTimestamp"} -> CalendarBodies
      [] o = "blockhash" -> TextBodies
      [] o = "block" -> JsonBodies
      [] OTHER -> {}

Responses(o) == [status : Statuses, body : Bodies(o)]

\* the byte length of a response body
BodyLen(o, body) ==
    CASE o \in {"submit", "getTimestamp"} -> body.len
      [] o = "blockhash" -> TextLen(body)
      [] o = "block" -> body.len

(***************************************************************************)
(* The external decoders.                                                  *)
(***************************************************************************)
\* Timestamp.deserialize(ctx, digest): a Timestamp, or the decoder's error
DecoderError(body) ==
    IF body.proof = "truncated" THEN Err("DeserializationError", "truncated stream")
    ELSE Err("DeserializationError", "")

Deserialize(body) ==
    IF body.proof = "valid" THEN Return([type |-> "Timestamp", len |-> body.len])
    ELSE Throw(DecoderError(body))

\* response.json(): the parsed value, or JSON.parse's SyntaxError
ParseJson(body) ==
    IF body.json = "invalid" THEN Throw(Err("SyntaxError", "Unexpected token"))
    ELSE Return(body.parsed)

\* `!body` on the string response.text() resolved with
TextTruthy(t) == TextLen(t) # 0

(***************************************************************************)
(* RemoteCalendar.submit: the three handlers of its promise chain.  Each   *)
(* yields the timer as it leaves it and what it returns or throws.         *)
(***************************************************************************)
\* mutant: submit maps 404 to CommitmentNotFoundError as getTimestamp does
SubmitOnResponse_NotFoundCase(timeoutId, resp) ==
    [timer |-> ClearIfSet(timeoutId),
     res |-> IF resp.status = 404
             THEN Throw(Err("CommitmentNotFoundError", "Commitment not found"))
             ELSE IF ~ResponseOk(resp) THEN Throw(Err("URLError", HttpMessage(resp)))
             ELSE Return("arrayBuffer")]

\* .then(response => ...): stop the timer, check the status, read the body
SubmitOnResponse(timeoutId, resp) ==
    [timer |-> ClearIfSet(timeoutId),
     res |-> IF ~ResponseOk(resp) THEN Throw(Err("URLError", HttpMessage(resp)))
             ELSE Return("arrayBuffer")]

\* mutant: the length test rejects a body of exactly the limit
SubmitOnBody_OffByOne(body) ==
    IF body.len >= SizeLimit
    THEN [decoded |-> FALSE,
          res |-> Throw(Err("ExceededSizeError", "Calendar response exceeded size limit"))]
    ELSE [decoded |-> TRUE, res |-> Deserialize(body)]

\* .then(arrayBuffer => ...): the size check, then the decoder
SubmitOnBody(body) ==
    IF body.len > SizeLimit
    THEN [decoded |-> FALSE,
          res |-> Throw(Err("ExceededSizeError", "Calendar response exceeded size limit"))]
    ELSE [decoded |-> TRUE, res |-> Deserialize(body)]

\* mutant: the catch handler wraps every error that is no abort
SubmitOnError_WrapAll(timeoutId, err) ==
    [timer |-> ClearIfSet(timeoutId),
     res |-> IF err.name = "AbortError" THEN Throw(Err("URLError", "Request timeout"))
             ELSE Throw(Err("Error", MessageOrString(err)))]

\* .catch(err => ...)
SubmitOnError(timeoutId, err) ==
    [timer |-> ClearIfSet(timeoutId),
     res |-> IF err.name = "AbortError" THEN Throw(Err("URLError", "Request timeout"))
             ELSE IF err.name \in {"ExceededSizeError", "URLError"} THEN Throw(err)
             ELSE Throw(Err("URLError", MessageOrString(err)))]

(***************************************************************************)
(* RemoteCalendar.getTimestamp                                             *)
(***************************************************************************)
GetTimestampOnResponse(timeoutId, resp) ==
    [timer |-> ClearIfSet(timeoutId),
     res |-> IF resp.status = 404
             THEN Throw(Err("CommitmentNotFoundError", "Commitment not found"))
             ELSE IF ~ResponseOk(resp) THEN Throw(Err("Error", HttpMessage(resp)))
             ELSE Return("arrayBuffer")]

\* mutant: the decoder runs before the size check
GetTimestampOnBody_DecodeFirst(body) ==
    LET d == Deserialize(body) IN
    IF ~d.ok THEN [decoded |-> TRUE, res |-> d]
    ELSE IF body.len > SizeLimit
    THEN [decoded |-> TRUE,
          res |-> Throw(Err("ExceededSizeError", "Calendar response exceeded size limit"))]
    ELSE [decoded |-> TRUE, res |-> d]

GetTimestampOnBody(body) ==
    IF body.len > SizeLimit
    THEN [decoded |-> FALSE,
          res |-> Throw(Err("ExceededSizeError", "Calendar response exceeded size limit"))]
    ELSE [decoded |-> TRUE, res |-> Deserialize(body)]

\* mutant: the catch handler re-throws the classes submit's handler re-throws
GetTimestampOnError_SubmitClasses(timeoutId, err) ==
    [timer |-> ClearIfSet(timeoutId),
     res |-> IF err.name = "AbortError" THEN Throw(Err("Error", "Request timeout"))
             ELSE IF err.name \in {"ExceededSizeError", "URLError"} THEN Throw(err)
             ELSE Throw(Err("Error", MessageOrString(err)))]

GetTimestampOnError(timeoutId, err) ==
    [timer |-> ClearIfSet(timeoutId),
     res |-> IF err.name = "AbortError" THEN Throw(Err("Error", "Request timeout"))
             ELSE IF err.name \in {"CommitmentNotFoundError", "ExceededSizeError"}
             THEN Throw(err)
             ELSE Throw(Err("Error", MessageOrString(err)))]

(***************************************************************************)
(* Esplora.blockhash                                                       *)
(***************************************************************************)
BlockhashOnResponse(timeoutId, resp) ==
    [timer |-> ClearTimeout(timeoutId),
     res |-> IF ~ResponseOk(resp) THEN Throw(Err("Error", HttpMessage(resp)))
             ELSE Return("text")]

BlockhashOnBody(body) ==
    [decoded |-> FALSE,
     res |-> IF ~TextTruthy(body) THEN Throw(Err("URLError", "Empty body"))
             ELSE Return(body)]

\* mutant: the catch handler does not look for an AbortError
BlockhashOnError_NoAbortCase(timeoutId, err) ==
    [timer |-> ClearTimeout(timeoutId), res |-> Throw(err)]

\* .catch(err => ...): an abort becomes Error('Request timeout'), anything
\* else is thrown again as it came
BlockhashOnError(timeoutId, err) ==
    [timer |-> ClearTimeout(timeoutId),
     res |-> IF err.name = "AbortError" THEN Throw(Err("Error", "Request timeout"))
             ELSE Throw(err)]

\* mutant: the first handler leaves the timer armed
BlockOnResponse_KeepTimer(timeoutId, resp) ==
    [timer |-> timeoutId,
     res |-> IF ~ResponseOk(resp) THEN Throw(Err("Error", HttpMessage(resp)))
             ELSE Return("json")]

(***************************************************************************)
(* Esplora.block                                                           *)
(***************************************************************************)
BlockOnResponse(timeoutId, resp) ==
    [timer |-> ClearTimeout(timeoutId),
     res |-> IF ~ResponseOk(resp) THEN Throw(Err("Error", HttpMessage(resp)))
             ELSE Return("json")]

\* body is what response.json() resolved with; String(body) of an object is
\* "[object Object]"
BlockOnBody(body) ==
    [decoded |-> FALSE,
     res |-> IF ~Truthy(body) THEN Throw(Err("URLError", "Empty body"))
             ELSE IF ~Truthy(body.merkle_root) \/ ~Truthy(body.timestamp)
             THEN Throw(Err("URLError", "[object Object]"))
             ELSE Return([merkleroot |-> body.merkle_root, time |-> body.timestamp])]

\* mutant: every error that reaches the catch handler is taken for an abort
BlockOnError_AlwaysTimeout(timeoutId, err) ==
    [timer |-> ClearTimeout(timeoutId), res |-> Throw(Err("Error", "Request timeout"))]

BlockOnError(timeoutId, err) ==
    [timer |-> ClearTimeout(timeoutId),
     res |-> IF err.name = "AbortError" THEN Throw(Err("Error", "Request timeout"))
             ELSE Throw(err)]

(***************************************************************************)
(* The handlers of a call by its operation.                                *)
(***************************************************************************)
OnResponse(o, timeoutId, resp) ==
    CASE o = "submit" -> SubmitOnResponse(timeoutId, resp)
      [] o = "getTimestamp" -> GetTimestampOnResponse(timeoutId, resp)
      [] o = "blockhash" -> BlockhashOnResponse(timeoutId, resp)
      [] o = "block" -> BlockOnResponse(timeoutId, resp)

\* the body promise: arrayBuffer() and text() resolve with the body,
\* json() resolves with the parsed value or rejects with the parser's error
ReadBody(o, body) ==
    IF o = "block" THEN ParseJson(body) ELSE Return(body)

OnBody(o, body) ==
    CASE o = "submit" -> SubmitOnBody(body)
      [] o = "getTimestamp" -> GetTimestampOnBody(body)
      [] o = "blockhash" -> BlockhashOnBody(body)
      [] o = "block" -> BlockOnBody(body)

OnError(o, timeoutId, err) ==
    CASE o = "submit" -> SubmitOnError(timeoutId, err)
      [] o = "getTimestamp" -> GetTimestampOnError(timeoutId, err)
      [] o = "blockhash" -> BlockhashOnError(timeoutId, err)
      [] o = "block" -> BlockOnError(timeoutId, err)

(***************************************************************************)
(* minimatch(url, pattern), for patterns of literal characters, * and ?    *)
(* (no braces, brackets, extglobs, escapes, negation or ** segments).      *)
(***************************************************************************)
StartsWith(s, prefix) ==
    Len(s) >= Len(prefix) /\ SubSeq(s, 1, Len(prefix)) = prefix

Head1(s) == SubSeq(s, 1, 1)
Tail1(s) == SubSeq(s, 2, Len(s))

\* the index of the first "/" of s at or after i, Len(s) + 1 when there is none
RECURSIVE FirstSlash(_, _)
FirstSlash(s, i) ==
    IF i > Len(s) \/ SubSeq(s, i, i) = "/" THEN i ELSE FirstSlash(s, i + 1)

\* the index of the first character of s at or after i that is no "/"
RECURSIVE SkipSlashes(_, _)
SkipSlashes(s, i) ==
    IF i > Len(s) \/ SubSeq(s, i, i) # "/" THEN i ELSE SkipSlashes(s, i + 1)

\* s.split(/\/+/): the parts of s between runs of slashes
RECURSIVE SlashSplit(_)
SlashSplit(s) ==
    LET i == FirstSlash(s, 1) IN
    IF i > Len(s) THEN <<s>>
    ELSE <<SubSeq(s, 1, i - 1)>> \o SlashSplit(SubSeq(s, SkipSlashes(s, i), Len(s)))

\* a pattern part with a glob character is compiled to a regular expression
RECURSIVE HasMagic(_)
HasMagic(p) ==
    /\ p # ""
    /\ \/ Head1(p) \in {"*", "?"}
       \/ HasMagic(Tail1(p))

\* the regular expression of a part: * is [^/]*?, ? is [^/], the rest literal
RECURSIVE GlobMatch(_, _)
GlobMatch(f, p) ==
    IF p = "" THEN f = ""
    ELSE IF Head1(p) = "*"
         THEN GlobMatch(f, Tail1(p)) \/ (f # "" /\ GlobMatch(Tail1(f), p))
    ELSE IF Head1(p) = "?"
         THEN f # "" /\ GlobMatch(Tail1(f), Tail1(p))
    ELSE f # "" /\ Head1(f) = Head1(p) /\ GlobMatch(Tail1(f), Tail1(p))

\* one part of the path against one part of the pattern: a part without
\* magic is compared as a string; a compiled part matches no empty string
\* ((?=.)) and, when it starts with * or ?, no string that starts with a dot
PartMatch(f, p) ==
    IF ~HasMagic(p) THEN f = p
    ELSE /\ f # ""
         /\ (Head1(p) \in {"*", "?"} => Head1(f) # ".")
         /\ GlobMatch(f, p)

\* matchOne(file, pattern): part by part; a path may end in one empty part
\* (a trailing slash) more than the pattern
MatchOne(file, pattern) ==
    LET fl == Len(file)
        pl == Len(pattern)
        n == IF fl < pl THEN fl ELSE pl
    IN /\ \A i \in 1..n : PartMatch(file[i], pattern[i])
       /\ \/ fl = pl
          \/ fl = pl + 1 /\ file[fl] = ""

Minimatch(url, pattern) == MatchOne(SlashSplit(url), SlashSplit(pattern))

(***************************************************************************)
(* UrlWhitelist                                                            *)
(***************************************************************************)
\* mutant: the argument is stored before its type is tested
UrlWhitelistAdd_StoreThenTest(set, url) ==
    IF url.type # "string" THEN [urls |-> set \cup {"http://undefined"}, threw |-> TRUE]
    ELSE IF StartsWith(url.str, "http://") \/ StartsWith(url.str, "https://")
    THEN [urls |-> set \cup {url.str}, threw |-> FALSE]
    ELSE [urls |-> set \cup {"http://" \o url.str, "https://" \o url.str},
          threw |-> FALSE]

\* mutant: the scheme test looks for "http" alone
UrlWhitelistAdd_HttpPrefix(set, url) ==
    IF url.type # "string" THEN [urls |-> set, threw |-> TRUE]
    ELSE IF StartsWith(url.str, "http")
    THEN [urls |-> set \cup {url.str}, threw |-> FALSE]
    ELSE [urls |-> set \cup {"http://" \o url.str, "https://" \o url.str},
          threw |-> FALSE]

\* mutant: a string without a scheme is stored under https:// only
UrlWhitelistAdd_HttpsOnly(set, url) ==
    IF url.type # "string" THEN [urls |-> set, threw |-> TRUE]
    ELSE IF StartsWith(url.str, "http://") \/ StartsWith(url.str, "https://")
    THEN [urls |-> set \cup {url.str}, threw |-> FALSE]
    ELSE [urls |-> set \cup {"https://" \o url.str}, threw |-> FALSE]

\* add(url) on the set `set`: the set afterwards, and whether add threw
UrlWhitelistAdd(set, url) ==
    IF url.type # "string" THEN [urls |-> set, threw |-> TRUE]
    ELSE IF StartsWith(url.str, "http://") \/ StartsWith(url.str, "https://")
    THEN [urls |-> set \cup {url.str}, threw |-> FALSE]
    ELSE [urls |-> set \cup {"http://" \o url.str, "https://" \o url.str},
          threw |-> FALSE]

\* mutant: minimatch is called with the pattern and the url swapped
UrlWhitelistContains_Swapped(set, url) ==
    Cardinality({u \in set : Minimatch(u, url)}) > 0

\* contains(url) on the set `set`
UrlWhitelistContains(set, url) ==
    Cardinality({u \in set : Minimatch(url, u)}) > 0

\* urls.forEach(u => this.add(u)) from the i-th element on; a throw ends it
RECURSIVE AddAll(_, _, _)
AddAll(set, list, i) ==
    IF i > Len(list) THEN [urls |-> set, threw |-> FALSE]
    ELSE LET r == UrlWhitelistAdd(set, list[i]) IN
         IF r.threw THEN r ELSE AddAll(r.urls, list, i + 1)

\* new UrlWhitelist(urls): an empty set when urls is missing
UrlWhitelistNew(list) ==
    IF list = <<>> THEN [urls |-> {}, threw |-> FALSE] ELSE AddAll({}, list, 1)

DEFAULT_CALENDAR_WHITELIST ==
    UrlWhitelistNew(<<JsStr("https://*.calendar.opentimestamps.org"),
                      JsStr("https://*.calendar.eternitywall.com"),
                      JsStr("https://*.calendar.catallaxy.com")>>).urls

(***************************************************************************)
(* Clients.                                                                *)
(***************************************************************************)
\* the timeouts a caller configures: none, 0, or a number of milliseconds
TimeoutOptions == {JsUndefined, JsNum(0), JsNum(500)}

\* Esplora constructor: this.timeout = options.timeout ? options.timeout : 1000
EsploraConstructor(options) ==
    [timeout |-> IF Truthy(options.timeout) THEN options.timeout
                 ELSE JsNum(DefaultEsploraTimeout)]

\* mutant: a calendar without a timeout takes the explorer's default
CalendarTimer_Default(timeout) ==
    IF Truthy(timeout) THEN SetTimeout(timeout.num) ELSE SetTimeout(DefaultEsploraTimeout)

\* this.timeout ? setTimeout(() => controller.abort(), this.timeout) : null
CalendarTimer(timeout) ==
    IF Truthy(timeout) THEN SetTimeout(timeout.num) ELSE NoTimer

\* setTimeout(() => controller.abort(), this.timeout)
EsploraTimer(timeout) == SetTimeout(timeout.num)

NoResponse == [status |-> 0]
NoError == [none |-> TRUE]
Pending == [state |-> "pending"]
Fulfilled(v) == [state |-> "fulfilled", value |-> v]
Rejected(e) == [state |-> "rejected", err |-> e]

NoAdd == [arg |-> JsUndefined, before |-> {}, threw |-> FALSE]

InitCalls ==
    /\ op = [c \in Calls |-> "none"]
    /\ pc = [c \in Calls |-> "idle"]
    /\ timer = [c \in Calls |-> NoTimer]
    /\ aborted = [c \in Calls |-> FALSE]
    /\ response = [c \in Calls |-> NoResponse]
    /\ thrown = [c \in Calls |-> NoError]
    /\ outcome = [c \in Calls |-> Pending]
    /\ decoded = [c \in Calls |-> FALSE]

Init ==
    /\ calendarTimeout \in TimeoutOptions
    /\ \E t \in TimeoutOptions :
          esploraTimeout = EsploraConstructor([timeout |-> t]).timeout
    /\ InitCalls
    /\ urls = DEFAULT_CALENDAR_WHITELIST
    /\ lastAdd = NoAdd

(***************************************************************************)
(* The start of a call: the controller, the timer, the request.            *)
(***************************************************************************)
Start(c, o, timeoutId) ==
    /\ pc[c] = "idle"
    /\ op' = [op EXCEPT ![c] = o]
    /\ timer' = [timer EXCEPT ![c] = timeoutId]
    /\ pc' = [pc EXCEPT ![c] = "fetching"]
    /\ UNCHANGED <<aborted, response, thrown, outcome, decoded, clientVars, listVars>>

Submit(c) == Start(c, "submit", CalendarTimer(calendarTimeout))
GetTimestamp(c) == Start(c, "getTimestamp", CalendarTimer(calendarTimeout))
Blockhash(c) == Start(c, "blockhash", EsploraTimer(esploraTimeout))
Block(c) == Start(c, "block", EsploraTimer(esploraTimeout))

(***************************************************************************)
(* The settlements of a call's I/O, each with the handlers it runs.        *)
(***************************************************************************)
\* a rejection reaches the catch handler, whose throw rejects the call
Catch(c, timeoutId, err) ==
    LET h == OnError(op[c], timeoutId, err) IN
    /\ timer' = [timer EXCEPT ![c] = h.timer]
    /\ thrown' = [thrown EXCEPT ![c] = err]
    /\ outcome' = [outcome EXCEPT ![c] =
                      IF h.res.ok THEN Fulfilled(h.res.value) ELSE Rejected(h.res.err)]
    /\ pc' = [pc EXCEPT ![c] = "done"]

\* mutant: one controller is shared by all calls
TimerFires_SharedController(c) ==
    /\ timer[c].state = "armed"
    /\ timer' = [timer EXCEPT ![c] = FireTimer(timer[c])]
    /\ aborted' = [d \in Calls |-> TRUE]
    /\ UNCHANGED <<op, pc, response, thrown, outcome, decoded, clientVars, listVars>>

\* the timer callback runs: controller.abort()
TimerFires(c) ==
    /\ timer[c].state = "armed"
    /\ timer' = [timer EXCEPT ![c] = FireTimer(timer[c])]
    /\ aborted' = [aborted EXCEPT ![c] = TRUE]
    /\ UNCHANGED <<op, pc, response, thrown, outcome, decoded, clientVars, listVars>>

\* the aborted request or body read rejects with an AbortError
AbortRejects(c) ==
    /\ aborted[c]
    /\ pc[c] \in {"fetching", "reading"}
    /\ Catch(c, timer[c], AbortError)
    /\ UNCHANGED <<op, aborted, response, decoded, clientVars, listVars>>

\* fetch rejects: no response came
FetchRejects(c) ==
    /\ pc[c] = "fetching"
    /\ ~aborted[c]
    /\ \E e \in FetchFailures : Catch(c, timer[c], e)
    /\ UNCHANGED <<op, aborted, response, decoded, clientVars, listVars>>

\* fetch resolves: the headers of a response came, one of `answers`
FetchResolves(c, answers) ==
    /\ pc[c] = "fetching"
    /\ ~aborted[c]
    /\ \E resp \in answers :
          LET h == OnResponse(op[c], timer[c], resp) IN
          /\ response' = [response EXCEPT ![c] = resp]
          /\ IF h.res.ok
             THEN /\ timer' = [timer EXCEPT ![c] = h.timer]
                  /\ pc' = [pc EXCEPT ![c] = "reading"]
                  /\ UNCHANGED <<thrown, outcome>>
             ELSE Catch(c, h.timer, h.res.err)
    /\ UNCHANGED <<op, aborted, decoded, clientVars, listVars>>

\* the body read rejects: the connection broke
BodyFails(c) ==
    /\ pc[c] = "reading"
    /\ ~aborted[c]
    /\ \E e \in BodyFailures : Catch(c, timer[c], e)
    /\ UNCHANGED <<op, aborted, response, decoded, clientVars, listVars>>

\* the body read settles with the whole body
BodyArrives(c) ==
    /\ pc[c] = "reading"
    /\ ~aborted[c]
    /\ LET r == ReadBody(op[c], response[c].body) IN
       IF ~r.ok
       THEN Catch(c, timer[c], r.err) /\ UNCHANGED decoded
       ELSE LET h == OnBody(op[c], r.value) IN
            /\ decoded' = [decoded EXCEPT ![c] = h.decoded]
            /\ IF h.res.ok
               THEN /\ outcome' = [outcome EXCEPT ![c] = Fulfilled(h.res.value)]
                    /\ pc' = [pc EXCEPT ![c] = "done"]
                    /\ UNCHANGED <<timer, thrown>>
               ELSE Catch(c, timer[c], h.res.err)
    /\ UNCHANGED <<op, aborted, response, clientVars, listVars>>

\* the steps of a call other than the arrival of the response
CallStep(c) ==
    \/ Submit(c)
    \/ GetTimestamp(c)
    \/ Blockhash(c)
    \/ Block(c)
    \/ TimerFires(c)
    \/ AbortRejects(c)
    \/ FetchRejects(c)
    \/ BodyFails(c)
    \/ BodyArrives(c)

\* one call, against every response a server can give
Next ==
    \E c \in 1..1 :
        \/ CallStep(c)
        \/ FetchResolves(c, Responses(op[c]))

Spec == Init /\ [][Next]_vars

\* the same, with the client's own steps never postponed for ever: a timer
\* that stays armed runs its callback, and an aborted request rejects.  When,
\* and whether, the server answers is left open.
FairSpec ==
    /\ Init
    /\ [][Next]_vars
    /\ \A c \in 1..1 : WF_vars(TimerFires(c)) /\ WF_vars(AbortRejects(c))

(***************************************************************************)
(* Several calls in flight at once, interleaved at their I/O settlements   *)
(* and timer callbacks, each against a few responses.                      *)
(***************************************************************************)
SampleBodies(o) ==
    CASE o \in {"submit", "getTimestamp"} ->
            {[len |-> SizeLimit, proof |-> "valid"],
             [len |-> SizeLimit + 1, proof |-> "valid"]}
      [] o = "blockhash" -> {[type |-> "string", lead |-> 0, core |-> 64, trail |-> 0]}
      [] o = "block" ->
            {[len |-> 64, json |-> "valid",
              parsed |-> [type |-> "object", merkle_root |-> JsStr("abc"),
                          timestamp |-> JsNum(123)]]}
      [] OTHER -> {}

SampleResponses(o) == [status : {200, 404}, body : SampleBodies(o)]

NextConcurrent ==
    \E c \in Calls :
        \/ CallStep(c)
        \/ FetchResolves(c, SampleResponses(op[c]))

ConcurrentSpec == Init /\ [][NextConcurrent]_vars

(***************************************************************************)
(* The whitelist on its own: construction, then add calls.                 *)
(***************************************************************************)
\* the arguments add is called with
AddInputs ==
    {JsStr("example.com"), JsStr("https://example.org"), JsStr("http://example.net"),
     JsStr("*.example.com"), JsStr("httpd.example.com"), JsNum(7), JsUndefined}

InitWhitelist ==
    /\ calendarTimeout = JsUndefined
    /\ esploraTimeout = EsploraConstructor([timeout |-> JsUndefined]).timeout
    /\ InitCalls
    /\ urls \in {UrlWhitelistNew(<<>>).urls, DEFAULT_CALENDAR_WHITELIST}
    /\ lastAdd = NoAdd

Add(url) ==
    /\ Cardinality(urls) < MaxPatterns
    /\ LET r == UrlWhitelistAdd(urls, url) IN
       /\ urls' = r.urls
       /\ lastAdd' = [arg |-> url, before |-> urls, threw |-> r.threw]
    /\ UNCHANGED <<callVars, clientVars>>

NextWhitelist == \E url \in AddInputs : Add(url)

WhitelistSpec == InitWhitelist /\ [][NextWhitelist]_vars

(***************************************************************************)
(* The error taxonomy of the specification, read off what the caller       *)
(* receives: the error's class name and its message.                       *)
(***************************************************************************)
KindOf(e) ==
    CASE e.name = "ExceededSizeError" -> "ExceededSizeError"
      [] e.name = "CommitmentNotFoundError" -> "CommitmentNotFoundError"
      [] e.name \in {"URLError", "Error"} /\ e.message = "Request timeout" ->
            "TimeoutError"
      [] e.name \in {"URLError", "Error"} /\ StartsWith(e.message, "HTTP ") ->
            "HttpStatusError"
      [] e.name = "URLError" /\ e.message = "Empty body" -> "EmptyResponseError"
      [] e.name = "URLError" /\ e.message = "[object Object]" ->
            "MalformedResponseError"
      [] e.name \in {"URLError", "Error"} -> "NetworkError"
      [] OTHER -> "unclassified"

Settled(c) == pc[c] = "done"
Failed(c) == Settled(c) /\ outcome[c].state = "rejected"
FailedWith(c, kind) == Failed(c) /\ KindOf(outcome[c].err) = kind
Answered(c) == response[c] # NoResponse
\* the body of the response reached the client whole
BodyRead(c) == Answered(c) /\ thrown[c] \notin BodyFailures
CalendarOps == {"submit", "getTimestamp"}

C2_NotFoundIsCommitmentNotFound ==
    \A c \in Calls :
        (Settled(c) /\ op[c] = "getTimestamp" /\ Answered(c)
            /\ response[c].status = 404)
        => /\ FailedWith(c, "CommitmentNotFoundError")
           /\ thrown[c] = Err("CommitmentNotFoundError", "Commitment not found")
           /\ outcome[c].err = thrown[c]

C2_Witness ==
    \E c \in Calls :
        /\ Settled(c) /\ op[c] = "getTimestamp" /\ response[c].status = 404
        /\ response[c].body.len > SizeLimit
        /\ outcome[c] = Rejected(Err("CommitmentNotFoundError", "Commitment not found"))

(***************************************************************************)
(* C3.  In each of the four exchanges a call whose timer fired while the   *)
(* server had not answered ends in TimeoutError, and when it has settled   *)
(* no timer of the call is pending.                                        *)
(***************************************************************************)
C3_TimeoutEndsInTimeoutError ==
    \A c \in Calls :
        /\ (aborted[c] /\ ~Settled(c)) => (pc[c] = "fetching" /\ ~Answered(c))
        /\ (aborted[c] /\ Settled(c))
           => /\ FailedWith(c, "TimeoutError")
              /\ thrown[c] = AbortError
              /\ timer[c].state = "fired"

C3_Witness ==
    \E c \in Calls :
        /\ Settled(c) /\ aborted[c] /\ op[c] = "blockhash"
        /\ ~Answered(c)
        /\ outcome[c] = Rejected(Err("Error", "Request timeout"))
        /\ timer[c].state = "fired"

(***************************************************************************)
(* C6.  Stated: block() on a success response succeeds exactly when the    *)
(* JSON body has both a merkle_root and a timestamp field, returning the   *)
(* two values, and fails with a malformed/empty-response error when one is *)
(* absent; a field that is present is never taken for absent because of    *)
(* its value.                                                              *)
(***************************************************************************)
Present(v) == v.type # "undefined"
HasBothFields(body) ==
    body.type = "object" /\ Present(body.merkle_root) /\ Present(body.timestamp)

C6_BlockSucceedsIffBothFieldsPresent ==
    \A c \in Calls :
        (Settled(c) /\ op[c] = "block" /\ BodyRead(c) /\ ResponseOk(response[c])
            /\ response[c].body.json = "valid")
        => LET body == response[c].body.parsed IN
           IF HasBothFields(body)
           THEN outcome[c] = Fulfilled([merkleroot |-> body.merkle_root,
                                        time |-> body.timestamp])
           ELSE Failed(c) /\ KindOf(outcome[c].err)
                                \in {"EmptyResponseError", "MalformedResponseError"}

(***************************************************************************)
(* C7.  Stated: blockhash() on a success response fails with               *)
(* EmptyResponseError when the body has zero length after trimming (empty  *)
(* or whitespace only), and otherwise returns the body text unmodified.    *)
(***************************************************************************)
\* the text without its leading and trailing blanks
Trim(t) == [t EXCEPT !.lead = 0, !.trail = 0]

C7_BlankBodyIsEmptyResponse ==
    \A c \in Calls :
        (Settled(c) /\ op[c] = "blockhash" /\ BodyRead(c) /\ ResponseOk(response[c]))
        => IF TextLen(Trim(response[c].body)) = 0
           THEN FailedWith(c, "EmptyResponseError")
           ELSE outcome[c] = Fulfilled(response[c].body)

(***************************************************************************)
(* C8.  In every exchange a response with a non-success status, other than *)
(* 404 on getTimestamp, ends in HttpStatusError: an error whose message    *)
(* carries the status code and reason phrase and which differs from what   *)
(* the same call delivers for a transport failure, for a timeout and for   *)
(* a commitment that was not found.  submit answered with 404 ends in      *)
(* HttpStatusError.                                                        *)
(***************************************************************************)
C8_BadStatusIsHttpStatusError ==
    \A c \in Calls :
        (Settled(c) /\ Answered(c) /\ ~ResponseOk(response[c])
            /\ ~(op[c] = "getTimestamp" /\ response[c].status = 404))
        => /\ FailedWith(c, "HttpStatusError")
           /\ outcome[c].err.message = HttpMessage(response[c])
           /\ \A e \in FetchFailures \cup BodyFailures \cup {AbortError} :
                 OnError(op[c], timer[c], e).res.err # outcome[c].err
           /\ outcome[c].err.name # "CommitmentNotFoundError"

C8_Witness ==
    \E c \in Calls :
        /\ Settled(c) /\ op[c] = "submit" /\ response[c].status = 404
        /\ outcome[c] = Rejected(Err("URLError", "HTTP 404: Not Found"))

(***************************************************************************)
(* C9.  A call ends in TimeoutError if and only if its own abort signal    *)
(* fired before it settled: every fired abort is reported with the message *)
(* 'Request timeout', the same in all four operations, and no failure with *)
(* another cause (transport, status, decoder) is reported that way.        *)
(***************************************************************************)
C9_TimeoutIffAborted ==
    \A c \in Calls :
        Settled(c)
        => /\ FailedWith(c, "TimeoutError") <=> aborted[c]
           /\ aborted[c] => outcome[c].err.message = "Request timeout"
           /\ (Failed(c) /\ ~aborted[c]) =>
                 /\ outcome[c].err.message # "Request timeout"
                 /\ thrown[c] # AbortError

C9_Witness ==
    \E c \in Calls :
        /\ Settled(c) /\ op[c] = "block" /\ ~aborted[c]
        /\ thrown[c] \in FetchFailures
        /\ timer[c].state = "cleared"
        /\ ~FailedWith(c, "TimeoutError")

(***************************************************************************)
(* C10.  In submit and getTimestamp an error that was classified where it  *)
(* was detected (ExceededSizeError, CommitmentNotFoundError,               *)
(* HttpStatusError) reaches the caller with the same kind and message, and *)
(* so does a TimeoutError: the catch handler maps a classified error to an *)
(* error of the same kind.                                                 *)
(***************************************************************************)
ClassifiedKinds ==
    {"ExceededSizeError", "CommitmentNotFoundError", "TimeoutError", "HttpStatusError"}

C10_ClassifiedErrorsKeepTheirKind ==
    \A c \in Calls :
        (Failed(c) /\ op[c] \in CalendarOps)
        => /\ KindOf(thrown[c]) \in ClassifiedKinds
              => /\ KindOf(outcome[c].err) = KindOf(thrown[c])
                 /\ outcome[c].err.message = thrown[c].message
           /\ KindOf(outcome[c].err) \in ClassifiedKinds
              => LET again == OnError(op[c], timer[c], outcome[c].err).res.err IN
                 /\ KindOf(again) = KindOf(outcome[c].err)
                 /\ again.message = outcome[c].err.message

C10_Witness ==
    \E c \in Calls :
        /\ Failed(c) /\ op[c] = "getTimestamp"
        /\ thrown[c] = Err("ExceededSizeError", "Calendar response exceeded size limit")
        /\ outcome[c].err = thrown[c]
        /\ response[c].status = 200

(***************************************************************************)
(* C4.  add of a string without an http:// or https:// prefix inserts two  *)
(* patterns, after which contains holds of the http:// and of the https:// *)
(* form; add of a string that carries a scheme inserts that one pattern,   *)
(* and contains of the form with the other scheme stays false.             *)
(***************************************************************************)
Contains(url) == UrlWhitelistContains(urls, url)
HasScheme(str) == StartsWith(str, "http://") \/ StartsWith(str, "https://")
\* the same host under the other scheme
OtherScheme(str) ==
    IF StartsWith(str, "https://") THEN "http://" \o SubSeq(str, 9, Len(str))
    ELSE "https://" \o SubSeq(str, 8, Len(str))

C4_AddNormalisesScheme ==
    (lastAdd.arg.type = "string" /\ ~lastAdd.threw)
    => LET str == lastAdd.arg.str IN
       IF ~HasScheme(str)
       THEN /\ urls = lastAdd.before \cup {"http://" \o str, "https://" \o str}
            /\ "http://" \o str # "https://" \o str
            /\ Contains("http://" \o str)
            /\ Contains("https://" \o str)
       ELSE /\ urls = lastAdd.before \cup {str}
            /\ Contains(str)
            /\ ~UrlWhitelistContains(lastAdd.before, OtherScheme(str))
                  => ~Contains(OtherScheme(str))

C4_Witness ==
    /\ lastAdd.arg = JsStr("https://example.org")
    /\ {"http://example.com", "https://example.com"} \subseteq lastAdd.before
    /\ Cardinality(urls) = 3
    /\ Contains("http://example.com") /\ Contains("https://example.com")
    /\ Contains("https://example.org") /\ ~Contains("http://example.org")

(***************************************************************************)
(* C5.  contains(url) holds exactly when a stored pattern glob-matches     *)
(* url, * spanning several dot-separated labels and the scheme and the     *)
(* literal parts matching exactly.  Against the default calendar whitelist *)
(* the https URL of any subdomain of the three calendar domains is         *)
(* contained; an unrelated host and the http:// form of a listed host are  *)
(* not.                                                                    *)
(***************************************************************************)
CalendarDomains ==
    {"calendar.opentimestamps.org", "calendar.eternitywall.com", "calendar.catallaxy.com"}
Subdomains == {"a", "alice.btc", "x.y.z"}
Candidates ==
    {"https://evil.com", "https://example.com", "http://example.com",
     "https://www.example.com", "https://example.org", "http://example.net"}
    \cup {"https://" \o sub \o "." \o d : sub \in Subdomains, d \in CalendarDomains}

C5_ContainsIsGlobMatch ==
    /\ \A url \in Candidates :
          Contains(url) <=> \E u \in urls : Minimatch(url, u)
    /\ DEFAULT_CALENDAR_WHITELIST \subseteq urls
       => \A sub \in Subdomains, d \in CalendarDomains :
             Contains("https://" \o sub \o "." \o d)
    /\ urls = DEFAULT_CALENDAR_WHITELIST
       => /\ ~Contains("https://evil.com")
          /\ \A sub \in Subdomains, d \in CalendarDomains :
                /\ ~Contains("http://" \o sub \o "." \o d)
                /\ ~Contains("https://" \o sub \o "." \o d \o ".evil.com")
                /\ ~Contains("https://" \o sub \o d)

C5_Witness ==
    /\ urls = DEFAULT_CALENDAR_WHITELIST \cup {"http://example.com", "https://example.com"}
    /\ Contains("https://alice.btc.calendar.opentimestamps.org")
    /\ Contains("https://example.com")
    /\ ~Contains("https://www.example.com")
    /\ ~Contains("https://evil.com")
    /\ ~Contains("http://alice.btc.calendar.opentimestamps.org")

(***************************************************************************)
(* C11.  Stated: when the decoder fails on a response body (the proof      *)
(* decoder in submit and getTimestamp, the JSON parser in block) the       *)
(* caller receives the decoder's own error unchanged, neither swallowed    *)
(* nor wrapped.                                                            *)
(***************************************************************************)
IsDecoderError(e) == e # NoError /\ e.name \in {"DeserializationError", "SyntaxError"}

C11_DecoderErrorReachesCaller ==
    \A c \in Calls :
        (Settled(c) /\ IsDecoderError(thrown[c]))
        => outcome[c] = Rejected(thrown[c])

(***************************************************************************)
(* C12.  Stated: in all four exchanges a transport failure that is no      *)
(* abort reaches the caller as a NetworkError carrying the underlying      *)
(* message, never as the platform's own error object.                      *)
(***************************************************************************)
C12_TransportFailureIsNetworkError ==
    \A c \in Calls :
        (Settled(c) /\ thrown[c] \in FetchFailures \cup BodyFailures)
        => /\ FailedWith(c, "NetworkError")
           /\ outcome[c].err.message = thrown[c].message
           /\ outcome[c].err # thrown[c]

(***************************************************************************)
(* C13.  add with an argument that is no string throws (a TypeError) and   *)
(* leaves the stored patterns as they were, so contains answers the same   *)
(* for every URL before and after the failed add.                          *)
(***************************************************************************)
C13_FailedAddChangesNothing ==
    /\ lastAdd # NoAdd => (lastAdd.threw <=> lastAdd.arg.type # "string")
    /\ lastAdd.threw
       => /\ urls = lastAdd.before
          /\ \A url \in Candidates :
                Contains(url) <=> UrlWhitelistContains(lastAdd.before, url)

C13_Witness ==
    /\ lastAdd.arg = JsNum(7)
    /\ lastAdd.threw
    /\ urls = lastAdd.before
    /\ "https://example.com" \in urls
    /\ Contains("https://example.com")

(***************************************************************************)
(* C17.  After any construction and any add calls, failed ones included,   *)
(* every stored entry starts with http:// or https://.                     *)
(***************************************************************************)
C17_EntriesCarryAScheme ==
    \A u \in urls : HasScheme(u)

C17_Witness ==
    /\ lastAdd.arg = JsStr("httpd.example.com")
    /\ {"http://httpd.example.com", "https://httpd.example.com"} \subseteq urls
    /\ \E u \in lastAdd.before : ~HasMagic(u)

(***************************************************************************)
(* C14.  On every path by which a call settles, its timer is no longer     *)
(* armed when the result or error is delivered: no settled call leaves an  *)
(* armed timer behind.                                                     *)
(***************************************************************************)
C14_NoSettledCallLeavesATimer ==
    \A c \in Calls : Settled(c) => timer[c].state # "armed"

\* a transport failure with the timer still armed: the catch handler clears it
C14_Witness ==
    \E c \in Calls :
        /\ Settled(c)
        /\ thrown[c] \in FetchFailures
        /\ ~Answered(c)
        /\ timer[c].state = "cleared"

(***************************************************************************)
(* C15.  Stated: on a client with a configured timeout every call          *)
(* eventually settles, whatever the server does, a server that sends the   *)
(* headers and never finishes the body included.                           *)
(***************************************************************************)
TimeoutConfigured(c) == op[c] \in CalendarOps => Truthy(calendarTimeout)

C15_EveryCallSettles ==
    \A c \in Calls :
        (pc[c] \in {"fetching", "reading"} /\ TimeoutConfigured(c)) ~> Settled(c)

(***************************************************************************)
(* C16.  With several calls in flight, each call has its own timer and     *)
(* abort signal: a timer that fires aborts the call that armed it and no   *)
(* other, clearing one call's timer leaves the others' as they were, no    *)
(* step touches two calls, and a settled call has the outcome its own      *)
(* handlers give for its own response and failure.                         *)
(***************************************************************************)
CallState(c) ==
    <<op[c], pc[c], timer[c], aborted[c], response[c], thrown[c], outcome[c], decoded[c]>>

AsOutcome(res) == IF res.ok THEN Fulfilled(res.value) ELSE Rejected(res.err)

\* the outcome of the call alone, from what the server did to it
SoloOutcome(o, resp, err) ==
    IF resp = NoResponse THEN AsOutcome(OnError(o, NoTimer, err).res)
    ELSE LET h == OnResponse(o, NoTimer, resp) IN
         IF ~h.res.ok THEN AsOutcome(OnError(o, NoTimer, h.res.err).res)
         ELSE IF err \in BodyFailures THEN AsOutcome(OnError(o, NoTimer, err).res)
         ELSE LET r == ReadBody(o, resp.body) IN
              IF ~r.ok THEN AsOutcome(OnError(o, NoTimer, r.err).res)
              ELSE LET b == OnBody(o, r.value) IN
                   IF b.res.ok THEN AsOutcome(b.res)
                   ELSE AsOutcome(OnError(o, NoTimer, b.res.err).res)

CallsAreIndependent ==
    \A c \in Calls :
        /\ (aborted'[c] /\ ~aborted[c])
           => (timer[c].state = "armed" /\ timer'[c].state = "fired")
        /\ CallState(c)' # CallState(c)
           => \A d \in Calls \ {c} : CallState(d)' = CallState(d)

C16_EachCallHasItsOwnTimer ==
    /\ [][CallsAreIndependent]_vars
    /\ [](\A c \in Calls :
            /\ aborted[c] => timer[c].state = "fired"
            /\ Settled(c) => outcome[c] = SoloOutcome(op[c], response[c], thrown[c]))

\* one call timed out while another of the same kind, started beside it,
\* was answered and is being read or has succeeded
C16_Witness ==
    \E c, d \in Calls :
        /\ c # d
        /\ op[c] = op[d]
        /\ FailedWith(c, "TimeoutError")
        /\ timer[c].state = "fired"
        /\ timer[d].state = "cleared"
        /\ ~aborted[d]
        /\ Settled(d) /\ outcome[d].state = "fulfilled"

(***************************************************************************)
(* C18.  In submit and getTimestamp the proof decoder runs only on a       *)
(* success-status response whose body is at most 10,000 bytes, runs on     *)
(* every such body that was read (one of exactly 10,000 bytes included),   *)
(* and never runs on a longer body.                                        *)
(***************************************************************************)
C18_SizeCheckBeforeDecoding ==
    \A c \in Calls :
        op[c] \in CalendarOps
        => /\ decoded[c]
              => /\ Answered(c)
                 /\ ResponseOk(response[c])
                 /\ response[c].body.len <= SizeLimit
           /\ (Settled(c) /\ BodyRead(c) /\ ResponseOk(response[c])
                 /\ response[c].body.len <= SizeLimit)
              => decoded[c]

C18_Witness ==
    \E c \in Calls :
        /\ op[c] = "submit"
        /\ Settled(c)
        /\ Answered(c)
        /\ response[c].body.len = SizeLimit
        /\ decoded[c]
        /\ outcome[c].state = "fulfilled"

C20_TimerClearedAtHeaders ==
    \A c \in Calls :
        /\ Answered(c) => (timer[c].state \in {"none", "cleared"} /\ ~aborted[c])
        /\ aborted[c] => (~Answered(c) /\ pc[c] \in {"fetching", "done"})
        /\ (thrown[c] = AbortError) => ~Answered(c)

C20_Witness ==
    \E c \in Calls :
        /\ op[c] = "block"
        /\ pc[c] = "reading"
        /\ ResponseOk(response[c])
        /\ timer[c] = [state |-> "cleared", delay |-> 1000]
====
